---- MODULE Spec2Model ----
(***************************************************************************)
(* A model of src/JS/sparticle.js: one Sparticle instance (this), the      *)
(* drawing context it shares (ctx), and the calls made on it: the          *)
(* constructor (Init), update() and render().                              *)
(*                                                                         *)
(* Numbers.  The program computes with IEEE doubles; the model computes    *)
(* with integers in fixed units:                                           *)
(*   px, py, dx, dy     1/PosScale of a pixel                              *)
(*   alpha, minAlpha,   1/AlphaScale (da stays the code's plain number:    *)
(*   maxAlpha           one fade tick is da/1000*alphaSpeed*0.5, which is  *)
(*                      da*alphaSpeed units of 1/2000)                     *)
(*   dd                 1/2 (random(drift/2, 3*drift/2) has half steps)    *)
(*   rotation, dr       half degrees (radian() is the fixed factor pi/180; *)
(*                      the unit of the model is pi/360 radians)           *)
(*   cartesian()        1/CartScale                                        *)
(* size, speed, direction, the variances, drift, rotation rate, parallax,  *)
(* alphaVariance, alphaSpeed, frame, frameoffset, width and height are the *)
(* code's plain integers.                                                  *)
(*                                                                         *)
(* The units are fine enough that every velocity is a whole number of      *)
(* units, and so is the drift of a particle at speed 100 and parallax 0    *)
(* for every value cartesian() has in the model; the drift at any other    *)
(* getDelta() is kept as whole units and the parts of a unit beyond them   *)
(* (pxRest, pyRest): no residue is dropped tick by tick.  The integers do  *)
(* not hold the rounding of the doubles, which decides a comparison where  *)
(* the two sides are within rounding of each other.  The model keeps what  *)
(* is open there next to the number: for alpha against minAlpha and        *)
(* maxAlpha (alphaSide), and for px and py against the values              *)
(* isOffCanvas() and reset() compare them with (pxSide, pySide, pxExact,   *)
(* pyExact).  sin and cos have the three decimals of SinTable.             *)
(***************************************************************************)
EXTENDS Integers, Sequences, FiniteSets, TLC

VARIABLES this, ctx, ticks

vars == <<this, ctx, ticks>>

PosScale == 300000
AlphaScale == 2000
CartScale == 1000

\* Bounds of the model: the number of update() calls explored.
MaxTicks == 8
StillTicks == 1000

(***************************************************************************)
(* helpers.js (imported at line 1, not part of the sources): modelled from *)
(* the specification's description of the numeric primitives.              *)
(***************************************************************************)
Abs(x) == IF x < 0 THEN -x ELSE x

\* a / b rounded to the nearest integer (b > 0): the model's real division.
DivRound(a, b) == (2 * a + b) \div (2 * b)

\* The greatest common divisor of two positive numbers.
RECURSIVE GCD(_, _)
GCD(a, b) == IF b = 0 THEN a ELSE GCD(b, a % b)

\* value * c / CartScale for a value in 1/PosScale and a component c of
\* cartesian(), the product taken in two parts to stay within 32 bits.
Scaled(c, value) ==
    c * (value \div CartScale) + DivRound(c * (value % CartScale), CartScale)

\* random(min, max): a uniform real of [min, max]; the model draws the two
\* ends and the middle of the interval (in the unit of its arguments).
random(min, max) == IF max <= min THEN {min} ELSE {min, (min + max) \div 2, max}

\* round(value) of a value given in 1/unit: the nearest integer.
round(value, unit) == (2 * value + unit) \div (2 * unit)

\* roll(chance): TRUE with probability chance.
roll == BOOLEAN

\* randomArray(array): any element of the array (any character of a
\* string); array[0], which is undefined, when it has none.
randomArray(array) ==
    IF Len(array) = 0 THEN {"undefined"} ELSE {array[i] : i \in 1..Len(array)}

\* clamp(value, min, max)
clamp(value, min, max) ==
    IF value < min THEN min ELSE IF value > max THEN max ELSE value

\* radian(angle) of an angle in half degrees, in units of pi/360.
radian(angle) == angle

\* 1000 * sin of 0..90 degrees.
SinTable ==
    << 0, 17, 35, 52, 70, 87, 105, 122, 139, 156, 174, 191, 208, 225, 242,
       259, 276, 292, 309, 326, 342, 358, 375, 391, 407, 423, 438, 454, 469,
       485, 500, 515, 530, 545, 559, 574, 588, 602, 616, 629, 643, 656, 669,
       682, 695, 707, 719, 731, 743, 755, 766, 777, 788, 799, 809, 819, 829,
       839, 848, 857, 866, 875, 883, 891, 899, 906, 914, 921, 927, 934, 940,
       946, 951, 956, 961, 966, 970, 974, 978, 982, 985, 988, 990, 993, 995,
       996, 998, 999, 999, 1000, 1000 >>

Sin(deg) ==
    LET a == deg % 360
    IN  IF a <= 90 THEN SinTable[a + 1]
        ELSE IF a <= 180 THEN SinTable[180 - a + 1]
        ELSE IF a <= 270 THEN -SinTable[a - 180 + 1]
        ELSE -SinTable[360 - a + 1]

Cos(deg) == Sin(deg + 90)

\* cartesian(angle): the unit vector of a direction in degrees, 0 pointing
\* up and 180 down the canvas: <<sin, -cos>>, in 1/CartScale.
cartesian(angle) == <<Sin(angle), -Cos(angle)>>

(***************************************************************************)
(* The parent Sparticles instances the constructor is called with.         *)
(***************************************************************************)
\* The values settings.color, settings.shape and parent.images can have: an
\* array of strings, or something that is not an array (a string, with its
\* characters as items, or undefined).
Array(items) == [type |-> "array", items |-> items]
String(characters) == [type |-> "string", items |-> characters]
Undefined == [type |-> "undefined", items |-> << >>]

\* Array.isArray(value)
isArray(value) == value.type = "array"

\* The truth value of value in a condition: undefined and the empty string
\* are false, an array is true even when it is empty.
Truthy(value) ==
    /\ value.type # "undefined"
    /\ value.type = "string" => Len(value.items) > 0

BaseSettings ==
    [ minSize |-> 2, maxSize |-> 2, minAlpha |-> AlphaScale, maxAlpha |-> AlphaScale,
      speed |-> 0, direction |-> 180, xVariance |-> 0, yVariance |-> 0,
      drift |-> 0, rotation |-> 0, parallax |-> 0, alphaVariance |-> 0,
      alphaSpeed |-> 0, rotate |-> FALSE, twinkle |-> FALSE,
      color |-> Array(<<"white">>), shape |-> Array(<<"circle">>),
      composition |-> "source-over" ]

SmallCanvas == [width |-> 20, height |-> 10]
BigCanvas == [width |-> 100, height |-> 100]

NoImages == Array(<< >>)

Directions == {0, 90, 180, 270}

\* Moving particles on a small canvas: every direction, each with one of the
\* motion features switched on; rotation, colours and shapes on some of them.
MotionSettings ==
    LET moving(d) == [BaseSettings EXCEPT !.speed = 100, !.direction = d]
    IN  UNION { { [moving(d) EXCEPT !.minSize = 1, !.maxSize = 3],
                  [moving(d) EXCEPT !.xVariance = 5],
                  [moving(d) EXCEPT !.yVariance = 5],
                  [moving(d) EXCEPT !.parallax = 25, !.minSize = 1, !.maxSize = 3],
                  [moving(d) EXCEPT !.drift = 30],
                  [moving(d) EXCEPT !.rotate = TRUE] }
              : d \in Directions }
        \cup { [moving(d) EXCEPT !.rotate = TRUE, !.rotation = 2] : d \in {90, 180} }
        \cup { [moving(45) EXCEPT !.drift = 30] }
        \cup { [moving(180) EXCEPT !.composition = "screen",
                                   !.color = Array(<<"white", "red">>),
                                   !.shape = Array(<<"circle", "star">>)] }

\* Alpha animation between 0.9 and 1 (and with minAlpha = maxAlpha), fading
\* and twinkling (the twinkling ones composed as "screen"), on particles that
\* stand still and that fall off the canvas.
AlphaSettings ==
    { [BaseSettings EXCEPT !.minAlpha = lo, !.alphaSpeed = 5,
                           !.alphaVariance = 19, !.twinkle = tw, !.speed = sp,
                           !.composition = IF tw THEN "screen" ELSE "source-over"]
      : lo \in {(9 * AlphaScale) \div 10, AlphaScale},
        tw \in BOOLEAN, sp \in {0, 100} }

\* The configuration of the standing particle: size 10, alpha 1, no speed,
\* no drift, no rotation; the settings it leaves open are varied.
StillSettings ==
    { [BaseSettings EXCEPT !.minSize = 10, !.maxSize = 10, !.xVariance = o[1],
                           !.alphaSpeed = o[2], !.twinkle = o[3]]
      : o \in { <<0, 0, FALSE>>, <<0, 10, FALSE>>, <<0, 10, TRUE>>,
                <<1, 0, FALSE>> } }

Parent(settings, canvas) ==
    [settings |-> settings, canvas |-> canvas, images |-> NoImages]

Parents ==
    { Parent(s, SmallCanvas) : s \in MotionSettings \cup AlphaSettings }

\* Particles of size 8 to 12 on the big canvas, standing and moving, for the
\* scenarios that place a particle at a chosen position.
PlacedSettings ==
    { [BaseSettings EXCEPT !.minSize = 8, !.maxSize = 12, !.speed = sp,
                           !.direction = d]
      : sp \in {0, 100}, d \in {90, 180} }

PlacedParents == { Parent(s, BigCanvas) : s \in PlacedSettings }

StillParents == { Parent(s, BigCanvas) : s \in StillSettings }

\* Alpha animation between 0.95 and 1 on particles that stand still and on
\* particles that move slowly and fall off the canvas: fading, and twinkling.
CycleSettings(twinkle) ==
    { [BaseSettings EXCEPT !.minAlpha = (19 * AlphaScale) \div 20,
                           !.alphaSpeed = 25, !.alphaVariance = 1,
                           !.twinkle = twinkle, !.speed = sp]
      : sp \in {0, 10} }

FadeParents == { Parent(s, SmallCanvas) : s \in CycleSettings(FALSE) }

TwinkleParents == { Parent(s, SmallCanvas) : s \in CycleSettings(TRUE) }

\* The settings the velocity is made of: with and without speed and parallax,
\* with variance on one axis, moving right and moving down, sizes 1 to 3.
DeltaSettings ==
    { [BaseSettings EXCEPT !.minSize = 1, !.maxSize = 3, !.speed = sp,
                           !.direction = d, !.parallax = p,
                           !.xVariance = v[1], !.yVariance = v[2]]
      : sp \in {0, 100}, d \in {90, 180}, p \in {0, 25},
        v \in {<<5, 0>>, <<0, 5>>} }

DeltaParents == { Parent(s, SmallCanvas) : s \in DeltaSettings }


(***************************************************************************)
(* The Sparticle instance.  Every operator below takes the instance (self) *)
(* and yields the instance the method leaves behind; a method that draws   *)
(* random numbers yields the set of the instances it can leave.  Two       *)
(* fields are bookkeeping of the model and are never read by the methods:  *)
(* sampled (the fields the running call has drawn afresh) and op (what the *)
(* last constructor or update() call did to the position).                 *)
(***************************************************************************)
SetupFields == {"frameoffset", "size", "da", "dx", "dy", "dd", "dr"}
InitFields ==
    {"alpha", "shape", "fillColor", "strokeColor", "px", "py", "rotation"}

(***************************************************************************)
(* px and py are doubles.  The model keeps the multiple of 1/PosScale just *)
(* below them (px, py), what the drift has added beyond it, and what the   *)
(* rounding of the sums leaves open:                                       *)
(*   pxRest, pyRest    the part of a unit of 1/PosScale the position lies  *)
(*                     above px or py, in pxParts-ths or pyParts-ths of    *)
(*                     that unit (a fraction in lowest terms): a velocity  *)
(*                     is a whole number of units, a drift step is a       *)
(*                     fraction of one unless getDelta() is 10 pixels      *)
(*   pxExact, pyExact  the double is that number: it was assigned (by      *)
(*                     init(), by reset(), by a caller) and every step     *)
(*                     added since was computed from, and is, a number of  *)
(*                     pixels a double holds exactly (10, 0.5; not 0.2,    *)
(*                     not 1.4 - 0.4, not a drift step)                    *)
(*   pxSide, pySide    for a value that the code compares px or py with    *)
(*                     (0, the width or height, the 3 * size margins), the *)
(*                     side of it the double lies on: -1 below, 0 equal,   *)
(*                     1 above; 0 for every other value                    *)
(* 110 + 100 * 0.2 is 130.00000000000014 > 130.  Which side a sum comes    *)
(* out on depends on bits the model does not keep, so a sum of steps that  *)
(* are not exact yields all three when it lands on such a value.           *)
(***************************************************************************)
\* alpha < bound and alpha > bound on the doubles, alpha being a value of
\* the model and side the side of it the double lies on.
Below(alpha, side, bound) == alpha < bound \/ (alpha = bound /\ side < 0)
Above(alpha, side, bound) == alpha > bound \/ (alpha = bound /\ side > 0)

\* A step in 1/PosScale pixels that is a whole number of 1/32 pixel: the
\* double holds it exactly, and adding it to an exact position is exact.
Dyadic(step) == step % (PosScale \div 32) = 0

\* The values px (length: the width) or py (length: the height) is compared
\* with by isOffCanvas() and reset(), for every size of the settings.
Compared(self, length) ==
    {0, length * PosScale}
    \cup { (0 - size * 3) * PosScale
           : size \in self.settings.minSize..self.settings.maxSize }
    \cup { (length + size * 3) * PosScale
           : size \in self.settings.minSize..self.settings.maxSize }

\* The sides of value that a position which has come to it can lie on, rest
\* being the part of a unit the position lies above value.
PositionSides(self, value, rest, length, exact) ==
    IF value \notin Compared(self, length) THEN {0}
    ELSE IF rest > 0 THEN {1}
    ELSE IF exact THEN {0}
    ELSE {-1, 0, 1}

\* isOffCanvas() with a margin of one size.
isOffCanvasTight(self) ==
    LET topleft == (0 - self.size) * PosScale
        bottom == (self.canvas.height + self.size) * PosScale
        right == (self.canvas.width + self.size) * PosScale
    IN  \/ Below(self.px, self.pxSide, topleft)
        \/ Above(self.px, self.pxSide, right)
        \/ Below(self.py, self.pySide, topleft)
        \/ Above(self.py, self.pySide, bottom)

\* isOffCanvas() with the margin itself counted as off the canvas.
isOffCanvasInclusive(self) ==
    LET topleft == (0 - self.size * 3) * PosScale
        bottom == (self.canvas.height + self.size * 3) * PosScale
        right == (self.canvas.width + self.size * 3) * PosScale
    IN  \/ ~Above(self.px, self.pxSide, topleft)
        \/ ~Below(self.px, self.pxSide, right)
        \/ ~Above(self.py, self.pySide, topleft)
        \/ ~Below(self.py, self.pySide, bottom)

\* isOffCanvas()
isOffCanvas(self) ==
    LET topleft == (0 - self.size * 3) * PosScale
        bottom == (self.canvas.height + self.size * 3) * PosScale
        right == (self.canvas.width + self.size * 3) * PosScale
    IN  \/ Below(self.px, self.pxSide, topleft)
        \/ Above(self.px, self.pxSide, right)
        \/ Below(self.py, self.pySide, topleft)
        \/ Above(self.py, self.pySide, bottom)

\* getColor()
getColor(self) ==
    IF isArray(self.settings.color)
    THEN randomArray(self.settings.color.items)
    ELSE {"undefined"}

\* getShapeOrImage()
getShapeOrImage(self) ==
    LET shape == self.settings.shape
    IN  IF isArray(shape)
        THEN IF /\ Len(shape.items) > 0
                /\ shape.items[1] = "image"
                /\ Truthy(self.images)
             THEN randomArray(self.images.items)
             ELSE randomArray(shape.items)
        ELSE {"undefined"}

\* getDelta() with the speed defaulted to 10 as getDeltaVariance() does.
getDeltaDefaulted(self) ==
    LET speed == IF self.settings.speed # 0 THEN self.settings.speed ELSE 10
        baseDelta == (speed * PosScale) \div 10
    IN  IF self.settings.speed # 0 /\ self.settings.parallax # 0
        THEN baseDelta + (self.size * self.settings.parallax * PosScale) \div 50
        ELSE baseDelta

\* getDelta() that adds the parallax term whatever the speed.
getDeltaAlwaysParallax(self) ==
    LET baseDelta == (self.settings.speed * PosScale) \div 10
    IN  IF self.settings.parallax # 0
        THEN baseDelta + (self.size * self.settings.parallax * PosScale) \div 50
        ELSE baseDelta

\* getDelta(), in 1/PosScale pixels:  speed * 0.1 + size * parallax / 50
getDelta(self) ==
    LET baseDelta == (self.settings.speed * PosScale) \div 10
    IN  IF self.settings.speed # 0 /\ self.settings.parallax # 0
        THEN baseDelta + (self.size * self.settings.parallax * PosScale) \div 50
        ELSE baseDelta

\* getDeltaVariance(v), in 1/PosScale pixels:  random(-v, v) * s / 100
getDeltaVariance(self, v) ==
    LET s == IF self.settings.speed # 0 THEN self.settings.speed ELSE 10
    IN  IF v > 0
        THEN { (r * s * PosScale) \div 100 : r \in random(-v, v) }
        ELSE {0}

\* getDeltaX()
getDeltaX(self) ==
    LET d == getDelta(self)
    IN  { Scaled(cartesian(self.settings.direction)[1], d) + dv
          : dv \in getDeltaVariance(self, self.settings.xVariance) }

\* getDeltaY()
getDeltaY(self) ==
    LET d == getDelta(self)
    IN  { Scaled(cartesian(self.settings.direction)[2], d) + dv
          : dv \in getDeltaVariance(self, self.settings.yVariance) }

\* The double getDelta() returns is the number getDelta() is in the model:
\* speed * 0.1 is rounded to speed / 10 when a double holds that, and so is
\* size * parallax / 50; the sum of the two is exact then.
ExactDelta(self) ==
    /\ Dyadic((self.settings.speed * PosScale) \div 10)
    /\ (self.settings.speed # 0 /\ self.settings.parallax # 0)
          => Dyadic((self.size * self.settings.parallax * PosScale) \div 50)

\* The double dx (axis 1) or dy (axis 2) is the number it is in the model:
\* the component of cartesian() or getDelta() is 0, or the component is 1 or
\* -1 and getDelta() is exact; and the variance r * s / 100 is a number a
\* double holds exactly.
ExactVelocity(self, axis) ==
    LET c == cartesian(self.settings.direction)[axis]
        velocity == IF axis = 1 THEN self.dx ELSE self.dy
        variance == velocity - Scaled(c, getDelta(self))
    IN  /\ \/ c = 0
           \/ getDelta(self) = 0
           \/ Abs(c) = CartScale /\ ExactDelta(self)
        /\ Dyadic(variance)

\* getAlphaDelta()
getAlphaDelta(self) ==
    LET variance == self.settings.alphaVariance
    IN  { IF r THEN -a ELSE a : a \in random(1, variance + 1), r \in roll }

\* getDriftDelta(), in halves
getDriftDelta(self) ==
    IF self.settings.drift = 0
    THEN {0}
    ELSE random(2 * self.settings.drift - self.settings.drift,
                2 * self.settings.drift + self.settings.drift)

\* getRotationDelta(), in half degrees
getRotationDelta(self) ==
    IF self.settings.rotate /\ self.settings.rotation # 0
    THEN { IF f THEN -radian(r * self.settings.rotation)
                ELSE radian(r * self.settings.rotation)
           : r \in random(1, 3), f \in roll }
    ELSE {0}

\* setup(): the values that are drawn again at every reset.
setup(self) ==
    UNION { { [self EXCEPT !.frame = 0,
                           !.frameoffset = fo,
                           !.size = sz,
                           !.da = a, !.dx = x, !.dy = y, !.dd = d, !.dr = r,
                           !.sampled = self.sampled \cup SetupFields]
              : fo \in { round(v, 1) : v \in random(0, 360) },
                a \in getAlphaDelta(self),
                x \in getDeltaX([self EXCEPT !.size = sz]),
                y \in getDeltaY([self EXCEPT !.size = sz]),
                d \in getDriftDelta(self),
                r \in getRotationDelta(self) }
            : sz \in { round(v, PosScale)
                       : v \in random(self.settings.minSize * PosScale,
                                      self.settings.maxSize * PosScale) } }

\* init(): setup(), then the values that are drawn once.
init(self) ==
    UNION { { [s EXCEPT !.alpha = al,
                        !.alphaSide = 0,
                        !.shape = sh,
                        !.fillColor = fc,
                        !.strokeColor = sc,
                        !.px = round(x, PosScale) * PosScale,
                        !.pxSide = 0,
                        !.pxExact = TRUE,
                        !.pxRest = 0,
                        !.pxParts = 1,
                        !.py = round(y, PosScale) * PosScale,
                        !.pySide = 0,
                        !.pyExact = TRUE,
                        !.pyRest = 0,
                        !.pyParts = 1,
                        !.rotation = rot,
                        !.op = "init",
                        !.sampled = s.sampled \cup InitFields]
              : al \in random(s.settings.minAlpha, s.settings.maxAlpha),
                sh \in getShapeOrImage(s),
                fc \in getColor(s),
                sc \in getColor(s),
                x \in random(-s.size * 2 * PosScale,
                             (s.canvas.width + s.size) * PosScale),
                y \in random(-s.size * 2 * PosScale,
                             (s.canvas.height + s.size) * PosScale),
                rot \in IF s.settings.rotate
                        THEN { radian(v) : v \in random(0, 2 * 360) }
                        ELSE {0} }
            : s \in setup(self) }

\* reset() that also draws the colours and the shape again.
resetWithColor(self) ==
    { LET py1 == IF Below(s.py, s.pySide, 0)
                 THEN (s.canvas.height + s.size * 2) * PosScale
                 ELSE IF Above(s.py, s.pySide, s.canvas.height * PosScale)
                 THEN (0 - s.size * 2) * PosScale
                 ELSE s.py
          px1 == IF Below(s.px, s.pxSide, 0)
                 THEN (s.canvas.width + s.size * 2) * PosScale
                 ELSE IF Above(s.px, s.pxSide, s.canvas.width * PosScale)
                 THEN (0 - s.size * 2) * PosScale
                 ELSE s.px
      IN  [s EXCEPT !.py = py1, !.px = px1,
                    !.pySide = IF py1 = s.py THEN s.pySide ELSE 0,
                    !.pxSide = IF px1 = s.px THEN s.pxSide ELSE 0,
                    !.pyExact = s.pyExact \/ py1 # s.py,
                    !.pxExact = s.pxExact \/ px1 # s.px,
                    !.pyRest = IF py1 = s.py THEN s.pyRest ELSE 0,
                    !.pxRest = IF px1 = s.px THEN s.pxRest ELSE 0,
                    !.pyParts = IF py1 = s.py THEN s.pyParts ELSE 1,
                    !.pxParts = IF px1 = s.px THEN s.pxParts ELSE 1,
                    !.op = "reset",
                    !.fillColor = fc, !.strokeColor = sc, !.shape = sh,
                    !.sampled = s.sampled \cup {"fillColor", "strokeColor", "shape"}]
      : s \in setup(self), fc \in getColor(self), sc \in getColor(self),
        sh \in getShapeOrImage(self) }

\* reset() that takes the canvas width for both axes.
resetWidthOnly(self) ==
    { LET py1 == IF Below(s.py, s.pySide, 0)
                 THEN (s.canvas.width + s.size * 2) * PosScale
                 ELSE IF Above(s.py, s.pySide, s.canvas.width * PosScale)
                 THEN (0 - s.size * 2) * PosScale
                 ELSE s.py
          px1 == IF Below(s.px, s.pxSide, 0)
                 THEN (s.canvas.width + s.size * 2) * PosScale
                 ELSE IF Above(s.px, s.pxSide, s.canvas.width * PosScale)
                 THEN (0 - s.size * 2) * PosScale
                 ELSE s.px
      IN  [s EXCEPT !.py = py1, !.px = px1,
                    !.pySide = IF py1 = s.py THEN s.pySide ELSE 0,
                    !.pxSide = IF px1 = s.px THEN s.pxSide ELSE 0,
                    !.pyExact = s.pyExact \/ py1 # s.py,
                    !.pxExact = s.pxExact \/ px1 # s.px,
                    !.pyRest = IF py1 = s.py THEN s.pyRest ELSE 0,
                    !.pxRest = IF px1 = s.px THEN s.pxRest ELSE 0,
                    !.pyParts = IF py1 = s.py THEN s.pyParts ELSE 1,
                    !.pxParts = IF px1 = s.px THEN s.pxParts ELSE 1,
                    !.op = "reset"]
      : s \in setup(self) }

\* reset() that puts an axis back at the edge it left through.
resetSameEdge(self) ==
    { LET py1 == IF Below(s.py, s.pySide, 0)
                 THEN (0 - s.size * 2) * PosScale
                 ELSE IF Above(s.py, s.pySide, s.canvas.height * PosScale)
                 THEN (s.canvas.height + s.size * 2) * PosScale
                 ELSE s.py
          px1 == IF Below(s.px, s.pxSide, 0)
                 THEN (0 - s.size * 2) * PosScale
                 ELSE IF Above(s.px, s.pxSide, s.canvas.width * PosScale)
                 THEN (s.canvas.width + s.size * 2) * PosScale
                 ELSE s.px
      IN  [s EXCEPT !.py = py1, !.px = px1,
                    !.pySide = IF py1 = s.py THEN s.pySide ELSE 0,
                    !.pxSide = IF px1 = s.px THEN s.pxSide ELSE 0,
                    !.pyExact = s.pyExact \/ py1 # s.py,
                    !.pxExact = s.pxExact \/ px1 # s.px,
                    !.pyRest = IF py1 = s.py THEN s.pyRest ELSE 0,
                    !.pxRest = IF px1 = s.px THEN s.pxRest ELSE 0,
                    !.pyParts = IF py1 = s.py THEN s.pyParts ELSE 1,
                    !.pxParts = IF px1 = s.px THEN s.pxParts ELSE 1,
                    !.op = "reset"]
      : s \in setup(self) }

\* reset() that puts back only an axis that lies beyond the 3 * size margin
\* of isOffCanvas().
resetTriggeringOnly(self) ==
    { LET py1 == IF Below(self.py, self.pySide, (0 - self.size * 3) * PosScale)
                 THEN (s.canvas.height + s.size * 2) * PosScale
                 ELSE IF Above(self.py, self.pySide,
                               (s.canvas.height + self.size * 3) * PosScale)
                 THEN (0 - s.size * 2) * PosScale
                 ELSE s.py
          px1 == IF Below(self.px, self.pxSide, (0 - self.size * 3) * PosScale)
                 THEN (s.canvas.width + s.size * 2) * PosScale
                 ELSE IF Above(self.px, self.pxSide,
                               (s.canvas.width + self.size * 3) * PosScale)
                 THEN (0 - s.size * 2) * PosScale
                 ELSE s.px
      IN  [s EXCEPT !.py = py1, !.px = px1,
                    !.pySide = IF py1 = s.py THEN s.pySide ELSE 0,
                    !.pxSide = IF px1 = s.px THEN s.pxSide ELSE 0,
                    !.pyExact = s.pyExact \/ py1 # s.py,
                    !.pxExact = s.pxExact \/ px1 # s.px,
                    !.pyRest = IF py1 = s.py THEN s.pyRest ELSE 0,
                    !.pxRest = IF px1 = s.px THEN s.pxRest ELSE 0,
                    !.pyParts = IF py1 = s.py THEN s.pyParts ELSE 1,
                    !.pxParts = IF px1 = s.px THEN s.pxParts ELSE 1,
                    !.op = "reset"]
      : s \in setup(self) }

\* reset() that starts the twinkle effect over.
resetClearsTwinkle(self) ==
    { LET py1 == IF Below(s.py, s.pySide, 0)
                 THEN (s.canvas.height + s.size * 2) * PosScale
                 ELSE IF Above(s.py, s.pySide, s.canvas.height * PosScale)
                 THEN (0 - s.size * 2) * PosScale
                 ELSE s.py
          px1 == IF Below(s.px, s.pxSide, 0)
                 THEN (s.canvas.width + s.size * 2) * PosScale
                 ELSE IF Above(s.px, s.pxSide, s.canvas.width * PosScale)
                 THEN (0 - s.size * 2) * PosScale
                 ELSE s.px
      IN  [s EXCEPT !.py = py1, !.px = px1,
                    !.pySide = IF py1 = s.py THEN s.pySide ELSE 0,
                    !.pxSide = IF px1 = s.px THEN s.pxSide ELSE 0,
                    !.pyExact = s.pyExact \/ py1 # s.py,
                    !.pxExact = s.pxExact \/ px1 # s.px,
                    !.pyRest = IF py1 = s.py THEN s.pyRest ELSE 0,
                    !.pxRest = IF px1 = s.px THEN s.pxRest ELSE 0,
                    !.pyParts = IF py1 = s.py THEN s.pyParts ELSE 1,
                    !.pxParts = IF px1 = s.px THEN s.pxParts ELSE 1,
                    !.op = "reset",
                    !.resettingTwinkle = FALSE]
      : s \in setup(self) }

\* reset(): a new setup(), and each axis that lies outside the canvas is put
\* 2 * size beyond the opposite edge (an assigned value: exact); an axis
\* within the canvas stays as it is.
reset(self) ==
    { LET py1 == IF Below(s.py, s.pySide, 0)
                 THEN (s.canvas.height + s.size * 2) * PosScale
                 ELSE IF Above(s.py, s.pySide, s.canvas.height * PosScale)
                 THEN (0 - s.size * 2) * PosScale
                 ELSE s.py
          px1 == IF Below(s.px, s.pxSide, 0)
                 THEN (s.canvas.width + s.size * 2) * PosScale
                 ELSE IF Above(s.px, s.pxSide, s.canvas.width * PosScale)
                 THEN (0 - s.size * 2) * PosScale
                 ELSE s.px
      IN  [s EXCEPT !.py = py1, !.px = px1,
                    !.pySide = IF py1 = s.py THEN s.pySide ELSE 0,
                    !.pxSide = IF px1 = s.px THEN s.pxSide ELSE 0,
                    !.pyExact = s.pyExact \/ py1 # s.py,
                    !.pxExact = s.pxExact \/ px1 # s.px,
                    !.pyRest = IF py1 = s.py THEN s.pyRest ELSE 0,
                    !.pxRest = IF px1 = s.px THEN s.pxRest ELSE 0,
                    !.pyParts = IF py1 = s.py THEN s.pyParts ELSE 1,
                    !.pxParts = IF px1 = s.px THEN s.pxParts ELSE 1,
                    !.op = "reset"]
      : s \in setup(self) }

\* new Sparticle(parent), parent given: the fields of the parent, then init().
Blank(parent) ==
    [ canvas |-> parent.canvas, images |-> parent.images,
      settings |-> parent.settings,
      frame |-> 0, frameoffset |-> 0, size |-> 0,
      da |-> 0, dx |-> 0, dy |-> 0, dd |-> 0, dr |-> 0,
      alpha |-> 0, alphaSide |-> 0,
      shape |-> "undefined", fillColor |-> "undefined",
      strokeColor |-> "undefined", px |-> 0, py |-> 0, rotation |-> 0,
      pxSide |-> 0, pySide |-> 0, pxExact |-> TRUE, pyExact |-> TRUE,
      pxRest |-> 0, pyRest |-> 0, pxParts |-> 1, pyParts |-> 1,
      resettingTwinkle |-> FALSE,
      op |-> "new", sampled |-> {} ]

Sparticle(parent) == init(Blank(parent))


(***************************************************************************)
(* alpha is a double.  The model keeps the multiple of 1/AlphaScale it is  *)
(* nearest to (alpha) and, because the sums of doubles are rounded, the    *)
(* side of a bound it lies on when that multiple is minAlpha or maxAlpha   *)
(* (alphaSide: -1 below, 0 equal, 1 above; 0 for every other alpha):       *)
(* 0.95 - 0.05 is 0.8999999999999999 < 0.9, while 1 - 0.1 is 0.9.  Which   *)
(* side a sum comes out on depends on bits the model does not keep, so a   *)
(* sum that lands on a bound yields all three.  A value assigned from the  *)
(* settings (a clamp, the alpha drawn by init()) is equal to the bound.    *)
(***************************************************************************)
Sides(self, alpha) ==
    IF alpha \in {self.settings.minAlpha, self.settings.maxAlpha}
    THEN {-1, 0, 1}
    ELSE {0}

\* updateFade() that stops at a bound without reversing da.
updateFadeClampOnly(self) ==
    LET tick == self.da * self.settings.alphaSpeed
        alpha == self.alpha + tick
    IN  { LET over == self.da > 0 /\ Above(alpha, side, self.settings.maxAlpha)
              under == self.da < 0 /\ Below(alpha, side, self.settings.minAlpha)
          IN  IF over \/ under
              THEN [self EXCEPT !.alpha = IF under THEN self.settings.minAlpha
                                          ELSE self.settings.maxAlpha,
                                !.alphaSide = 0]
              ELSE [self EXCEPT !.alpha = alpha, !.alphaSide = side]
          : side \in Sides(self, alpha) }

\* updateFade(): the alpha after one tick of the fading effect (da is
\* reversed at a bound).
updateFade(self) ==
    LET tick == self.da * self.settings.alphaSpeed
        alpha == self.alpha + tick
    IN  { LET over == self.da > 0 /\ Above(alpha, side, self.settings.maxAlpha)
              under == self.da < 0 /\ Below(alpha, side, self.settings.minAlpha)
          IN  IF over \/ under
              THEN [self EXCEPT !.da = -self.da,
                                !.alpha = IF under THEN self.settings.minAlpha
                                          ELSE self.settings.maxAlpha,
                                !.alphaSide = 0]
              ELSE [self EXCEPT !.alpha = alpha, !.alphaSide = side]
          : side \in Sides(self, alpha) }

\* updateTwinkle() with the bounds tested inclusively (<=, >=).
updateTwinkleInclusive(self) ==
    LET delta == Abs(self.da)
        over == ~Below(self.alpha, self.alphaSide, self.settings.maxAlpha)
        under == ~Above(self.alpha, self.alphaSide, self.settings.minAlpha)
        tick == delta * self.settings.alphaSpeed
        alpha == IF self.resettingTwinkle
                 THEN self.alpha + (2 * self.settings.alphaSpeed * AlphaScale) \div 100
                 ELSE self.alpha - tick
    IN  IF under
        THEN { [self EXCEPT !.resettingTwinkle = TRUE,
                            !.alpha = self.settings.minAlpha,
                            !.alphaSide = 0] }
        ELSE IF over
        THEN { [self EXCEPT !.resettingTwinkle = FALSE,
                            !.alpha = self.settings.maxAlpha,
                            !.alphaSide = 0] }
        ELSE { [self EXCEPT !.alpha = alpha, !.alphaSide = side]
               : side \in Sides(self, alpha) }

\* updateTwinkle() that never leaves the resetting state.
updateTwinkleStaysResetting(self) ==
    LET delta == Abs(self.da)
        over == Above(self.alpha, self.alphaSide, self.settings.maxAlpha)
        under == Below(self.alpha, self.alphaSide, self.settings.minAlpha)
        tick == delta * self.settings.alphaSpeed
        alpha == IF self.resettingTwinkle
                 THEN self.alpha + (2 * self.settings.alphaSpeed * AlphaScale) \div 100
                 ELSE self.alpha - tick
    IN  IF under
        THEN { [self EXCEPT !.resettingTwinkle = TRUE,
                            !.alpha = self.settings.minAlpha,
                            !.alphaSide = 0] }
        ELSE IF over
        THEN { [self EXCEPT !.alpha = self.settings.maxAlpha,
                            !.alphaSide = 0] }
        ELSE { [self EXCEPT !.alpha = alpha, !.alphaSide = side]
               : side \in Sides(self, alpha) }

\* updateTwinkle(): the alpha after one tick of the twinkle effect.  over and
\* under are taken from the alpha the tick starts with.
updateTwinkle(self) ==
    LET delta == Abs(self.da)
        over == Above(self.alpha, self.alphaSide, self.settings.maxAlpha)
        under == Below(self.alpha, self.alphaSide, self.settings.minAlpha)
        tick == delta * self.settings.alphaSpeed
        alpha == IF self.resettingTwinkle
                 THEN self.alpha + (2 * self.settings.alphaSpeed * AlphaScale) \div 100
                 ELSE self.alpha - tick
    IN  IF under
        THEN { [self EXCEPT !.resettingTwinkle = TRUE,
                            !.alpha = self.settings.minAlpha,
                            !.alphaSide = 0] }
        ELSE IF over
        THEN { [self EXCEPT !.resettingTwinkle = FALSE,
                            !.alpha = self.settings.maxAlpha,
                            !.alphaSide = 0] }
        ELSE { [self EXCEPT !.alpha = alpha, !.alphaSide = side]
               : side \in Sides(self, alpha) }

\* updateAlpha()
updateAlpha(self) ==
    IF self.settings.alphaSpeed > 0
    THEN IF self.settings.twinkle THEN updateTwinkle(self) ELSE updateFade(self)
    ELSE {self}

\* updateRotation() that keeps the angle within one turn.
updateRotationWrapped(self) ==
    IF self.settings.rotate /\ self.settings.rotation # 0
    THEN [self EXCEPT !.rotation = (self.rotation + self.dr) % (2 * 360)]
    ELSE self

\* updateRotation()
updateRotation(self) ==
    IF self.settings.rotate /\ self.settings.rotation # 0
    THEN [self EXCEPT !.rotation = self.rotation + self.dr]
    ELSE self

\* The drift of one tick, in 1/PosScale pixels:
\*   cartesian(frame + frameoffset)[axis] * dd / (getDelta() * 15)
\* that is c * dd * DriftScale / getDelta() in the units of the model, c
\* being in 1/CartScale, dd in halves and getDelta() in 1/PosScale.  The
\* quotient is a whole number whenever getDelta() is 10 pixels (speed 100,
\* no parallax), whatever c and dd are.  Otherwise it is DriftStep units (the
\* whole units at or below it) and DriftRest parts of a unit, a unit having
\* DriftDivisor parts.
DriftScale == (PosScale \div 30) * (PosScale \div CartScale)

LCM(a, b) == (a \div GCD(a, b)) * b

DriftDivisor(self) == getDelta(self) \div GCD(DriftScale, getDelta(self))

DriftStep(self, axis) ==
    LET c == cartesian(self.frame + self.frameoffset)[axis]
        g == GCD(DriftScale, getDelta(self))
    IN  (c * self.dd * (DriftScale \div g)) \div DriftDivisor(self)

DriftRest(self, axis) ==
    LET c == cartesian(self.frame + self.frameoffset)[axis]
        g == GCD(DriftScale, getDelta(self))
    IN  (c * self.dd * (DriftScale \div g)) % DriftDivisor(self)

\* value + rest / parts and the drift of one tick added up: the whole units,
\* and the fraction of a unit beyond them in lowest terms.
Drifted(self, axis, value, rest, parts) ==
    LET common == LCM(parts, DriftDivisor(self))
        sum == rest * (common \div parts)
                 + DriftRest(self, axis) * (common \div DriftDivisor(self))
        left == sum % common
        h == GCD(left, common)
    IN  [ value |-> value + DriftStep(self, axis) + sum \div common,
          rest |-> left \div h,
          parts |-> common \div h ]

\* updateDrift() with the two axes exchanged.
updateDriftSwapped(self) ==
    LET direction == self.settings.direction
        x == Drifted(self, 1, self.px, self.pxRest, self.pxParts)
        y == Drifted(self, 2, self.py, self.pyRest, self.pyParts)
    IN  IF self.settings.drift # 0 /\ self.settings.speed # 0
        THEN IF \/ (direction > 150 /\ direction < 210)
                \/ (direction > 330 /\ direction < 390)
                \/ (direction > -30 /\ direction < 30)
             THEN [self EXCEPT !.py = y.value, !.pyRest = y.rest,
                               !.pyParts = y.parts, !.pyExact = FALSE]
             ELSE IF \/ (direction > 60 /\ direction < 120)
                     \/ (direction > 240 /\ direction < 300)
             THEN [self EXCEPT !.px = x.value, !.pxRest = x.rest,
                               !.pxParts = x.parts, !.pxExact = FALSE]
             ELSE self
        ELSE self

\* updateDrift(): the drift step is a quotient of doubles, never exact.
updateDrift(self) ==
    LET direction == self.settings.direction
        x == Drifted(self, 1, self.px, self.pxRest, self.pxParts)
        y == Drifted(self, 2, self.py, self.pyRest, self.pyParts)
    IN  IF self.settings.drift # 0 /\ self.settings.speed # 0
        THEN IF \/ (direction > 150 /\ direction < 210)
                \/ (direction > 330 /\ direction < 390)
                \/ (direction > -30 /\ direction < 30)
             THEN [self EXCEPT !.px = x.value, !.pxRest = x.rest,
                               !.pxParts = x.parts, !.pxExact = FALSE]
             ELSE IF \/ (direction > 60 /\ direction < 120)
                     \/ (direction > 240 /\ direction < 300)
             THEN [self EXCEPT !.py = y.value, !.pyRest = y.rest,
                               !.pyParts = y.parts, !.pyExact = FALSE]
             ELSE self
        ELSE self

\* The particle a tick has moved from before to after, with the sides its
\* position can lie on: a coordinate nothing was added to lies where it lay.
Rounded(before, after) ==
    { [after EXCEPT !.pxSide = sx, !.pySide = sy]
      : sx \in IF /\ before.dx = 0
                  /\ ExactVelocity(before, 1)
                  /\ after.px = before.px
                  /\ after.pxRest = before.pxRest
                  /\ after.pxParts = before.pxParts
               THEN {before.pxSide}
               ELSE PositionSides(after, after.px, after.pxRest,
                                  after.canvas.width, after.pxExact),
        sy \in IF /\ before.dy = 0
                  /\ ExactVelocity(before, 2)
                  /\ after.py = before.py
                  /\ after.pyRest = before.pyRest
                  /\ after.pyParts = before.pyParts
               THEN {before.pySide}
               ELSE PositionSides(after, after.py, after.pyRest,
                                  after.canvas.height, after.pyExact) }

\* updatePosition() that goes on to move the particle it has reset.
updatePositionFallThrough(self) ==
    LET moved(s) ==
            UNION { Rounded(s, m)
                    : m \in { updateRotation(updateDrift(translated))
                              : translated \in {
                        [s EXCEPT !.px = s.px + s.dx,
                                  !.pxExact = s.pxExact /\ ExactVelocity(s, 1),
                                  !.py = s.py + s.dy,
                                  !.pyExact = s.pyExact /\ ExactVelocity(s, 2)] } } }
    IN  IF isOffCanvas(self)
        THEN UNION { moved(s) : s \in reset(self) }
        ELSE moved([self EXCEPT !.op = "translate"])

\* updatePosition(): a particle that is off the canvas is reset; any other is
\* moved by its velocity, then drifted, then rotated (moved), and lies on
\* one of the sides the rounding leaves open.
updatePosition(self) ==
    IF isOffCanvas(self)
    THEN reset(self)
    ELSE UNION { Rounded(self, moved)
                 : moved \in { updateRotation(updateDrift(translated))
                               : translated \in {
                     [self EXCEPT !.px = self.px + self.dx,
                                  !.pxExact = self.pxExact /\ ExactVelocity(self, 1),
                                  !.py = self.py + self.dy,
                                  !.pyExact = self.pyExact /\ ExactVelocity(self, 2),
                                  !.op = "translate"] } } }

\* update() that counts the frame after the position and the alpha.
updateFrameLast(self) ==
    { [t EXCEPT !.frame = t.frame + 1]
      : t \in UNION { updateAlpha(s)
                      : s \in updatePosition([self EXCEPT !.sampled = {}]) } }

\* update()
update(self) ==
    UNION { updateAlpha(s)
            : s \in updatePosition([self EXCEPT !.frame = self.frame + 1,
                                                !.sampled = {}]) }

(***************************************************************************)
(* The drawing context.  Its transform is kept as the sequence of the      *)
(* operations applied since it was last the identity (the empty sequence). *)
(* Two fields are bookkeeping: drawn, the names of the operations in force *)
(* at the last drawImage call, and assigned, the properties of the context *)
(* that the last render() call assigned to, in the order of the            *)
(* assignments.                                                            *)
(*                                                                         *)
(* render() runs on the particle and on the context this.ctx refers to: a  *)
(* call is the record of the two, each statement yields the call after it, *)
(* and render() yields what it leaves of both.                             *)
(***************************************************************************)
Identity == << >>

BitmapSizes == {20, 40}

\* renderRotate(): rotate about the centre of the particle.
renderRotate(call) ==
    IF call.self.settings.rotate
    THEN LET centerX == call.self.px + (call.self.size * PosScale) \div 2
             centerY == call.self.py + (call.self.size * PosScale) \div 2
         IN  [call EXCEPT !.ctx.transform =
                 @ \o << <<"translate", centerX, centerY>>,
                         <<"rotate", call.self.rotation>>,
                         <<"translate", -centerX, -centerY>> >>]
    ELSE call

\* this.ctx.globalAlpha = clamp(this.alpha, 0, 1)
renderAlpha(call) ==
    [call EXCEPT !.ctx.globalAlpha = clamp(call.self.alpha, 0, AlphaScale),
                 !.ctx.assigned = Append(@, "globalAlpha")]

\* this.ctx.transform(scale, 0, 0, scale, 0, 0), scale being size / canvasSize
renderScale(call, canvasSize) ==
    [call EXCEPT !.ctx.transform =
        @ \o << <<"transform", call.self.size, canvasSize>> >>]

\* The composition of render() assigned whether or not the context has it.
renderCompositionAlways(call) ==
    [call EXCEPT !.ctx.globalCompositeOperation = call.self.settings.composition,
                 !.ctx.assigned = Append(@, "globalCompositeOperation")]

\* if (this.ctx.globalCompositeOperation !== this.settings.composition)
\*   this.ctx.globalCompositeOperation = this.settings.composition
renderComposition(call) ==
    IF call.ctx.globalCompositeOperation # call.self.settings.composition
    THEN [call EXCEPT !.ctx.globalCompositeOperation =
                          call.self.settings.composition,
                      !.ctx.assigned = Append(@, "globalCompositeOperation")]
    ELSE call

\* this.ctx.drawImage(...)
renderDraw(call) ==
    [call EXCEPT !.ctx.drawn =
        [i \in 1..Len(call.ctx.transform) |-> call.ctx.transform[i][1]]]

\* render() without the closing setTransform(1, 0, 0, 1, 0, 0).
renderNoReset(self, c, canvasSize) ==
    LET entered == [self |-> self, ctx |-> [c EXCEPT !.assigned = << >>]]
    IN  renderDraw(renderComposition(renderScale(
            renderAlpha(renderRotate(entered)), canvasSize)))

\* render(images), canvasSize being the width of the bitmap images holds for
\* the particle's colour and shape: the particle and the context it leaves.
render(self, c, canvasSize) ==
    LET entered == [self |-> self, ctx |-> [c EXCEPT !.assigned = << >>]]
        drew == renderDraw(renderComposition(renderScale(
                    renderAlpha(renderRotate(entered)), canvasSize)))
    IN  [drew EXCEPT !.ctx.transform = Identity]

\* The 2d context of a canvas nothing has drawn on.
NewContext ==
    [ transform |-> Identity, globalAlpha |-> AlphaScale,
      globalCompositeOperation |-> "source-over", drawn |-> << >>,
      assigned |-> << >> ]

(***************************************************************************)
(* The calls.                                                              *)
(***************************************************************************)
Construct(parents) ==
    /\ \E parent \in parents : this \in Sparticle(parent)
    /\ ctx = NewContext
    /\ ticks = 0

Init == Construct(Parents)

UpdateUpTo(limit) ==
    /\ ticks < limit
    /\ this' \in update(this)
    /\ ticks' = ticks + 1
    /\ UNCHANGED ctx

Update == UpdateUpTo(MaxTicks)

\* render(images) is given the bitmaps of every colour and shape of the
\* settings; images[undefined] or images[color][undefined] is undefined, and
\* render() throws a TypeError on it before it has changed anything.
Drawable(self) == self.fillColor # "undefined" /\ self.shape # "undefined"

Render ==
    /\ Drawable(this)
    /\ \E canvasSize \in BitmapSizes :
         LET left == render(this, ctx, canvasSize)
         IN  /\ this' = left.self
             /\ ctx' = left.ctx
    /\ UNCHANGED ticks

Next == Update \/ Render

Spec == Init /\ [][Next]_vars


(***************************************************************************)
(* The standing particle: the constructor on the still configurations,     *)
(* then update() calls only.                                               *)
(***************************************************************************)
InitStill == Construct(StillParents)

UpdateStill == UpdateUpTo(StillTicks)

NextStill == UpdateStill

SpecStill == InitStill /\ [][NextStill]_vars

(***************************************************************************)
(* The placed particle: a caller constructs a particle and then assigns    *)
(* its px and py (public fields), far outside the canvas, at the 3 * size  *)
(* margin of each edge, one pixel and 1/PosScale pixel beyond it, or in    *)
(* the middle.                                                             *)
(***************************************************************************)
FarAway == 1000

PlacedAlong(size, length) ==
    LET margin == 3 * size * PosScale
        far == length * PosScale
    IN  { -FarAway * PosScale, -margin - PosScale, -margin - 1, -margin,
          far \div 2,
          far + margin, far + margin + 1, far + margin + PosScale,
          FarAway * PosScale }

InitPlaced ==
    /\ \E parent \in PlacedParents :
         \E s \in Sparticle(parent) :
           \E x \in PlacedAlong(s.size, s.canvas.width),
              y \in PlacedAlong(s.size, s.canvas.height) :
             this = [s EXCEPT !.px = x, !.py = y]
    /\ ctx = NewContext
    /\ ticks = 0

SpecPlaced == InitPlaced /\ [][Next]_vars


(***************************************************************************)
(* Properties.                                                             *)
(***************************************************************************)
Ticked == ticks' = ticks + 1

Range(sequence) == { sequence[i] : i \in 1..Len(sequence) }

AlphaAnimated(self) ==
    /\ self.settings.alphaSpeed > 0
    /\ self.settings.minAlpha <= self.settings.maxAlpha

\* C1: with alphaSpeed > 0 and minAlpha <= maxAlpha, alpha lies within
\* [minAlpha, maxAlpha] after the constructor and after every update(), in
\* fade mode and in twinkle mode.
AlphaWithinBounds ==
    AlphaAnimated(this) =>
        /\ ~Below(this.alpha, this.alphaSide, this.settings.minAlpha)
        /\ ~Above(this.alpha, this.alphaSide, this.settings.maxAlpha)


Twinkling(self) == self.settings.twinkle /\ self.settings.alphaSpeed > 0

\* alpha = bound on the doubles
AtBound(self, bound) == self.alpha = bound /\ self.alphaSide = 0

\* C2 as stated: in twinkle mode with alphaSpeed > 0, whenever alpha equals
\* minAlpha the next update() strictly increases alpha, and whenever alpha
\* equals maxAlpha the next update() strictly decreases it, however the bound
\* was reached.
TwinkleTurnsAtBound ==
    [][ (Ticked /\ Twinkling(this)) =>
          /\ (AtBound(this, this.settings.minAlpha) => this'.alpha > this.alpha)
          /\ (AtBound(this, this.settings.maxAlpha) => this'.alpha < this.alpha)
      ]_vars

\* C2 amended: in twinkle mode with alphaSpeed > 0, whenever alpha equals
\* minAlpha and the particle is resetting (as it is after every tick that
\* clamped alpha to minAlpha) the next update() strictly increases alpha, and
\* whenever alpha equals maxAlpha and the particle is decaying (as it is after
\* every tick that clamped alpha to maxAlpha, and after construction) the
\* next update() strictly decreases it.
TwinkleTurnsAfterClamp ==
    [][ (Ticked /\ Twinkling(this)) =>
          /\ (AtBound(this, this.settings.minAlpha) /\ this.resettingTwinkle
                => this'.alpha > this.alpha)
          /\ (AtBound(this, this.settings.maxAlpha) /\ ~this.resettingTwinkle
                => this'.alpha < this.alpha)
      ]_vars

\* A tick has clamped a twinkling particle to minAlpha < maxAlpha and the next
\* tick has raised it.
TwinkleTurnedAtMin ==
    /\ Twinkling(this)
    /\ this.settings.minAlpha < this.settings.maxAlpha
    /\ this.resettingTwinkle
    /\ this.alpha > this.settings.minAlpha
    /\ ticks > 1

LifecycleFields ==
    {"size", "da", "dd", "dr", "dx", "dy", "fillColor", "strokeColor", "shape"}

\* C3 as stated: size, da, dd, dr, dx, dy, the colours and the shape are all
\* drawn afresh by the constructor and by every reset(), and by nothing else.
ResampledTogether ==
    /\ this.op \in {"init", "reset"} => LifecycleFields \subseteq this.sampled
    /\ this.op = "translate" => this.sampled \cap LifecycleFields = {}

\* C3 amended: the constructor draws all of size, da, dd, dr, dx, dy, the
\* colours and the shape; every reset() draws size, da, dd, dr, dx and dy
\* afresh and leaves the colours and the shape as the constructor chose them;
\* an update() that does not reset draws none of them and keeps size, dd, dr,
\* dx, dy and the magnitude of da.
ResampledAtReset ==
    [][ /\ this.op = "init" => LifecycleFields \subseteq this.sampled
        /\ Ticked =>
             /\ this'.fillColor = this.fillColor
             /\ this'.strokeColor = this.strokeColor
             /\ this'.shape = this.shape
             /\ this'.op = "reset" =>
                  this'.sampled \cap LifecycleFields =
                      {"size", "da", "dd", "dr", "dx", "dy"}
             /\ this'.op = "translate" =>
                  /\ this'.sampled = {}
                  /\ this'.size = this.size
                  /\ this'.dd = this.dd
                  /\ this'.dr = this.dr
                  /\ this'.dx = this.dx
                  /\ this'.dy = this.dy
                  /\ Abs(this'.da) = Abs(this.da)
      ]_vars

\* A particle with two colours and two shapes to choose from, which the
\* constructor gave two different colours, has been reset.
ResetWithChoice ==
    /\ this.op = "reset"
    /\ Len(this.settings.color.items) > 1
    /\ Len(this.settings.shape.items) > 1
    /\ this.fillColor # this.strokeColor

\* C4: reset() puts an axis that left the canvas 2 * size (the new size)
\* beyond the opposite edge: left to width + 2 * size, right to -2 * size,
\* top to height + 2 * size, bottom to -2 * size.
ResetToOppositeEdge ==
    [][ Ticked =>
          LET margin == 3 * this.size * PosScale
              width == this.canvas.width * PosScale
              height == this.canvas.height * PosScale
              back == 2 * this'.size * PosScale
          IN  /\ Below(this.px, this.pxSide, -margin) => this'.px = width + back
              /\ Above(this.px, this.pxSide, width + margin) => this'.px = -back
              /\ Below(this.py, this.pySide, -margin) => this'.py = height + back
              /\ Above(this.py, this.pySide, height + margin) => this'.py = -back
      ]_vars

\* A particle of varying size that moves left has been reset and stands
\* 2 * size right of the canvas.
ResetFromLeft ==
    /\ this.op = "reset"
    /\ this.settings.direction = 270
    /\ this.settings.minSize < this.settings.maxSize
    /\ this.px = (this.canvas.width + 2 * this.size) * PosScale

\* C5: right after a reset() the particle is not off the canvas, and the
\* update() after one that reset the particle does not reset it again.
NoResetTwice ==
    [][ /\ this.op = "reset" => ~isOffCanvas(this)
        /\ (Ticked /\ this.op = "reset") => this'.op = "translate"
      ]_vars

\* A reset particle has been updated once more.
MovedAfterReset ==
    /\ this.op = "translate"
    /\ this.frame = 1
    /\ ticks > 1
    /\ this.settings.minSize < this.settings.maxSize


\* C6: isOffCanvas() is true exactly when px < -3 * size, px > width +
\* 3 * size, py < -3 * size or py > height + 3 * size: update() resets the
\* particle in exactly these cases, so not at 3 * size past an edge.
OffCanvasBeyondMargin ==
    [][ Ticked =>
          LET margin == 3 * this.size * PosScale
              width == this.canvas.width * PosScale
              height == this.canvas.height * PosScale
          IN  this'.op = "reset" <=>
                \/ Below(this.px, this.pxSide, -margin)
                \/ Above(this.px, this.pxSide, width + margin)
                \/ Below(this.py, this.pySide, -margin)
                \/ Above(this.py, this.pySide, height + margin)
      ]_vars

\* A standing particle placed exactly 3 * size left of the canvas has been
\* updated and not reset.
KeptAtMargin ==
    /\ ticks > 0
    /\ this.op = "translate"
    /\ this.settings.speed = 0
    /\ this.px = -3 * this.size * PosScale
    /\ this.pxExact

\* C7: an update() of a particle that is off the canvas resets it and applies
\* neither velocity, drift nor rotation; an update() of any other particle
\* adds the velocity, then the drift and the rotation, and draws no field
\* afresh.
ResetOrTranslate ==
    [][ Ticked =>
          LET width == this.canvas.width * PosScale
              height == this.canvas.height * PosScale
              back == 2 * this'.size * PosScale
              turning == this.settings.rotate /\ this.settings.rotation # 0
              drifted == updateDrift([this' EXCEPT !.px = this.px + this.dx,
                                                   !.py = this.py + this.dy,
                                                   !.pxRest = this.pxRest,
                                                   !.pyRest = this.pyRest,
                                                   !.pxParts = this.pxParts,
                                                   !.pyParts = this.pyParts])
          IN  IF isOffCanvas(this)
              THEN /\ this'.op = "reset"
                   /\ this'.px \in {this.px, width + back, -back}
                   /\ this'.py \in {this.py, height + back, -back}
                   /\ this'.rotation = this.rotation
              ELSE /\ this'.op = "translate"
                   /\ this'.px = drifted.px
                   /\ this'.py = drifted.py
                   /\ this'.pxRest = drifted.pxRest
                   /\ this'.pyRest = drifted.pyRest
                   /\ this'.pxParts = drifted.pxParts
                   /\ this'.pyParts = drifted.pyParts
                   /\ this'.rotation = this.rotation + (IF turning THEN this.dr ELSE 0)
                   /\ this'.sampled = {}
                   /\ this'.size = this.size
                   /\ this'.dx = this.dx
                   /\ this'.dy = this.dy
      ]_vars

\* A drifting particle has been moved by its third or a later update().
Translated ==
    /\ this.op = "translate"
    /\ this.settings.drift # 0
    /\ this.dx # 0
    /\ ticks > 2

\* C8: after every render() the transform of the context is the identity,
\* with and without rotation, and every bitmap is drawn under the transform of
\* one render() call alone: the scale, preceded by the rotation about the
\* centre when rotation is enabled.
TransformIsIdentity ==
    /\ ctx.transform = Identity
    /\ ctx.drawn \in { << >>, <<"transform">>,
                       <<"translate", "rotate", "translate", "transform">> }
    /\ ctx.drawn # << >> =>
         (Len(ctx.drawn) = 4 <=> this.settings.rotate)

\* A turned particle has been rendered after an update().
RenderedRotated ==
    /\ ctx.drawn = <<"translate", "rotate", "translate", "transform">>
    /\ this.rotation # 0
    /\ ticks > 0

\* C9 as stated: with minSize = maxSize = 10, minAlpha = maxAlpha = 1,
\* speed = 0, drift = 0 and rotate = false on a 100 x 100 canvas, px and py
\* never change, alpha is exactly 1 and rotation is 0 over 1000 update()
\* calls.
StandsStill ==
    [][ Ticked =>
          /\ this'.px = this.px
          /\ this'.py = this.py
          /\ AtBound(this', AlphaScale)
          /\ this'.rotation = 0
      ]_vars

\* C9 amended: with that configuration and xVariance = yVariance = 0, px and
\* py never change and rotation is 0 over 1000 update() calls; alpha is
\* exactly 1 after every update() when twinkle is off or alphaSpeed is 0.
StandsStillWithoutVariance ==
    [][ (/\ Ticked
         /\ this.settings.xVariance = 0
         /\ this.settings.yVariance = 0) =>
          /\ this'.px = this.px
          /\ this'.py = this.py
          /\ this'.rotation = 0
          /\ ~Twinkling(this) => AtBound(this', AlphaScale)
      ]_vars

\* The standing particle after 1000 update() calls, fading.
StoodStill ==
    /\ ticks = 1000
    /\ this.frame = 1000
    /\ this.settings.xVariance = 0
    /\ this.settings.alphaSpeed > 0
    /\ ~this.settings.twinkle

\* C10: a particle far left of the canvas (px = -1000 at size 8 to 12, width
\* 100) is off the canvas, and one update() puts it at px >= width with a
\* freshly drawn size within [minSize, maxSize].
FarLeftComesBackRight ==
    [][ (Ticked /\ Below(this.px, this.pxSide, -3 * this.size * PosScale)) =>
          /\ isOffCanvas(this)
          /\ this'.px >= this.canvas.width * PosScale
          /\ "size" \in this'.sampled
          /\ this.settings.minSize <= this'.size
          /\ this'.size <= this.settings.maxSize
      ]_vars

\* The particle placed far left, after its first update(): at the right edge,
\* not where the constructor could have put it.
CameBackRight ==
    /\ ticks = 1
    /\ this.op = "reset"
    /\ this.canvas.width = 100
    /\ this.px = (100 + 2 * this.size) * PosScale
    /\ this.py = (this.canvas.height \div 2) * PosScale


\* What an update() that did not reset added to px and to py beyond the
\* velocity.
DriftedX == this'.px - this.px - this.dx
DriftedY == this'.py - this.py - this.dy

Near(direction, angle) == direction > angle - 30 /\ direction < angle + 30

\* C11 as stated: on every update() that does not reset, with drift and speed
\* configured, the drift goes to exactly one axis, chosen by the direction:
\* to px alone at direction 0, to py alone at direction 90; with drift 0
\* neither px nor py is drifted.
DriftsOneAxis ==
    [][ (Ticked /\ this'.op = "translate") =>
          IF this.settings.drift # 0 /\ this.settings.speed # 0
          THEN /\ \/ DriftedX = DriftStep(this', 1) /\ DriftedY = 0
                  \/ DriftedY = DriftStep(this', 2) /\ DriftedX = 0
               /\ this.settings.direction = 0 =>
                    DriftedX = DriftStep(this', 1) /\ DriftedY = 0
               /\ this.settings.direction = 90 =>
                    DriftedY = DriftStep(this', 2) /\ DriftedX = 0
          ELSE DriftedX = 0 /\ DriftedY = 0
      ]_vars

\* C11 amended: on every update() that does not reset, with drift and speed
\* configured, the drift goes to px alone when the direction is less than 30
\* degrees from 0, 180 or 360, to py alone when it is less than 30 degrees
\* from 90 or 270, and to neither axis at any other direction; with drift 0
\* (or speed 0) neither px nor py is drifted.
DriftsAtMostOneAxis ==
    [][ (Ticked /\ this'.op = "translate") =>
          LET direction == this.settings.direction
          IN  IF this.settings.drift # 0 /\ this.settings.speed # 0
              THEN IF Near(direction, 0) \/ Near(direction, 180) \/ Near(direction, 360)
                   THEN DriftedX = DriftStep(this', 1) /\ DriftedY = 0
                   ELSE IF Near(direction, 90) \/ Near(direction, 270)
                   THEN DriftedY = DriftStep(this', 2) /\ DriftedX = 0
                   ELSE DriftedX = 0 /\ DriftedY = 0
              ELSE DriftedX = 0 /\ DriftedY = 0
      ]_vars

\* A particle moving to the right (direction 90) has been drifted off the
\* height the constructor gave it, its px being moved by the velocity alone.
DriftedVertically ==
    /\ this.op = "translate"
    /\ this.settings.drift # 0
    /\ this.settings.direction = 90
    /\ this.py % PosScale # 0
    /\ this.px % PosScale = 0

Rotating(self) == self.settings.rotate /\ self.settings.rotation # 0

\* C15 as stated: rotation is 0 in every state when rotate is off; with
\* rotate on and a rotation rate other than 0 every update() adds dr to
\* rotation (the dr before or after the update()); with rotate on and the
\* rate 0, rotation never changes.
RotatesEveryTick ==
    [][ /\ ~this.settings.rotate => this.rotation = 0 /\ this'.rotation = 0
        /\ (Ticked /\ Rotating(this)) =>
              \/ this'.rotation = this.rotation + this.dr
              \/ this'.rotation = this.rotation + this'.dr
        /\ (this.settings.rotate /\ this.settings.rotation = 0) =>
              this'.rotation = this.rotation
      ]_vars

\* C15 amended: rotation is 0 in every state when rotate is off; with rotate
\* on and a rotation rate other than 0, every update() that does not reset
\* adds exactly dr to rotation, without clamping or reversal, and an update()
\* that resets leaves rotation as it is (drawing a new dr, never 0); with
\* rotate on and the rate 0, rotation never changes.
RotatesUnlessReset ==
    [][ /\ ~this.settings.rotate => this.rotation = 0 /\ this'.rotation = 0
        /\ (Ticked /\ Rotating(this) /\ this'.op = "translate") =>
              /\ this'.rotation = this.rotation + this.dr
              /\ this'.dr = this.dr
        /\ (Ticked /\ Rotating(this) /\ this'.op = "reset") =>
              /\ this'.rotation = this.rotation
              /\ this'.dr # 0
        /\ (this.settings.rotate /\ this.settings.rotation = 0) =>
              this'.rotation = this.rotation
      ]_vars

\* A rotating particle has turned beyond the full turn that init() draws
\* its first angle from.
TurnedBeyondFullTurn ==
    /\ this.op = "translate"
    /\ Rotating(this)
    /\ this.rotation > 2 * 360

\* The coordinate lies more than 3 * size beyond an edge of the axis of the
\* given length / lies within that margin.
BeyondMargin(coord, side, size, length) ==
    \/ Below(coord, side, (0 - size * 3) * PosScale)
    \/ Above(coord, side, (length + size * 3) * PosScale)
WithinMargin(coord, side, size, length) == ~BeyondMargin(coord, side, size, length)

\* Where reset() leaves a coordinate that does not lie beyond the margin.
Snapped(coord, side, size, length) ==
    IF Below(coord, side, 0) THEN (length + size * 2) * PosScale
    ELSE IF Above(coord, side, length * PosScale) THEN (0 - size * 2) * PosScale
    ELSE coord

\* C17 as stated: when an update() resets the particle because of one axis
\* only (that axis beyond the 3 * size margin, the other within it), the
\* other axis keeps its value, wherever within the margin it lies.
ResetKeepsOtherAxis ==
    [][ (Ticked /\ this'.op = "reset") =>
          LET width == this.canvas.width
              height == this.canvas.height
          IN  /\ ( /\ BeyondMargin(this.px, this.pxSide, this.size, width)
                   /\ WithinMargin(this.py, this.pySide, this.size, height) )
                 => this'.py = this.py /\ this'.px # this.px
              /\ ( /\ BeyondMargin(this.py, this.pySide, this.size, height)
                   /\ WithinMargin(this.px, this.pxSide, this.size, width) )
                 => this'.px = this.px /\ this'.py # this.py
      ]_vars

\* C17 amended: when an update() resets the particle because of one axis only
\* (that axis beyond the 3 * size margin, the other within it), the triggering
\* axis is repositioned, and the other axis keeps its value only if it lies
\* within the canvas (0 <= coordinate <= bound); if it lies in the margin
\* strip outside the canvas it is put 2 * size (new size) beyond the
\* opposite edge as well.
ResetKeepsOtherAxisOnCanvas ==
    [][ (Ticked /\ this'.op = "reset") =>
          LET width == this.canvas.width
              height == this.canvas.height
          IN  /\ ( /\ BeyondMargin(this.px, this.pxSide, this.size, width)
                   /\ WithinMargin(this.py, this.pySide, this.size, height) )
                 => /\ this'.py = Snapped(this.py, this.pySide, this'.size, height)
                    /\ this'.px # this.px
              /\ ( /\ BeyondMargin(this.py, this.pySide, this.size, height)
                   /\ WithinMargin(this.px, this.pxSide, this.size, width) )
                 => /\ this'.px = Snapped(this.px, this.pxSide, this'.size, width)
                    /\ this'.py # this.py
      ]_vars

\* A particle that moves to the right only, constructed in the strip above
\* the canvas, has left through the right edge and has been put below the
\* canvas by that reset: init() puts no particle that far down.
SnappedFromStrip ==
    /\ this.op = "reset"
    /\ this.settings.direction = 90
    /\ this.settings.yVariance = 0
    /\ this.settings.drift = 0
    /\ this.px = (0 - this.size * 2) * PosScale
    /\ this.py = (this.canvas.height + this.size * 2) * PosScale

\* C18: frame is 0 after init() and after an update() that reset the
\* particle; an update() that does not reset adds exactly 1 to frame and
\* leaves frameoffset as it is; nothing else changes either of them.
FrameCountsTicks ==
    [][ /\ this.op = "init" => this.frame = 0
        /\ (Ticked /\ this'.op = "reset") => this'.frame = 0
        /\ (Ticked /\ this'.op = "translate") =>
              /\ this'.frame = this.frame + 1
              /\ this'.frameoffset = this.frameoffset
        /\ ~Ticked =>
              /\ this'.frame = this.frame
              /\ this'.frameoffset = this.frameoffset
      ]_vars

\* A particle that has been reset has counted two or more frames of its new
\* lifecycle.
CountedAfterReset ==
    /\ this.op = "translate"
    /\ this.frame >= 2
    /\ this.frame < ticks

\* C19: reset() leaves alpha and resettingTwinkle as they are: after an
\* update() that reset the particle, alpha, resettingTwinkle and da are what
\* updateAlpha() makes of the alpha and the flag from before the update() and
\* the da that reset() drew; so a particle reset while resettingTwinkle is set
\* (and alpha not above maxAlpha) still has it set; and resettingTwinkle is
\* unset after init().
ResetKeepsAlphaState ==
    [][ /\ this.op = "init" => ~this.resettingTwinkle
        /\ (Ticked /\ this'.op = "reset") =>
              /\ \E d \in {this'.da, -this'.da} :
                    \E u \in updateAlpha([this EXCEPT !.da = d]) :
                        /\ this'.alpha = u.alpha
                        /\ this'.alphaSide = u.alphaSide
                        /\ this'.resettingTwinkle = u.resettingTwinkle
                        /\ this'.da = u.da
              /\ ( /\ Twinkling(this)
                   /\ this.resettingTwinkle
                   /\ ~Above(this.alpha, this.alphaSide, this.settings.maxAlpha) )
                 => this'.resettingTwinkle
      ]_vars

\* A twinkling particle has been reset while resettingTwinkle was set: the
\* update() that reset it has stepped its alpha up from minAlpha.
RecycledWhileResetting ==
    /\ this.op = "reset"
    /\ Twinkling(this)
    /\ this.resettingTwinkle
    /\ this.alpha > this.settings.minAlpha

\* C20: render() changes no field of the particle (what render() leaves of
\* the particle is the particle it was called on), so the particle goes
\* through the same states whether or not render() calls come between its
\* update() calls; render() leaves globalAlpha at alpha clamped to [0, 1]; it
\* assigns globalCompositeOperation when the context has another mode than
\* the configured composition and only then, and leaves it at the configured
\* composition either way.
RenderKeepsParticle ==
    [][ ~Ticked =>
          LET differs == ctx.globalCompositeOperation # this.settings.composition
          IN  /\ this' = this
              /\ ctx'.globalAlpha >= 0
              /\ ctx'.globalAlpha <= AlphaScale
              /\ ctx'.globalAlpha =
                    IF this.alpha > AlphaScale THEN AlphaScale
                    ELSE IF this.alpha < 0 THEN 0
                    ELSE this.alpha
              /\ "globalAlpha" \in Range(ctx'.assigned)
              /\ "globalCompositeOperation" \in Range(ctx'.assigned) <=> differs
              /\ ctx'.globalCompositeOperation = this.settings.composition
      ]_vars

\* A twinkling particle whose alpha has stepped above 1 has been drawn with
\* globalAlpha 1 by a render() that found the context in the configured
\* composition, which an earlier render() had assigned, and left it alone.
RenderedAboveOne ==
    /\ ctx.drawn # << >>
    /\ this.alpha > AlphaScale
    /\ ctx.globalAlpha = AlphaScale
    /\ this.settings.composition # NewContext.globalCompositeOperation
    /\ ctx.globalCompositeOperation = this.settings.composition
    /\ ctx.assigned = <<"globalAlpha">>

(***************************************************************************)
(* The velocity: particles of every combination of speed, parallax and     *)
(* variance.                                                               *)
(***************************************************************************)
InitDelta == Construct(DeltaParents)

UpdateDelta == UpdateUpTo(MaxTicks)

NextDelta == UpdateDelta

SpecDelta == InitDelta /\ [][NextDelta]_vars

\* The part of a velocity component that the direction accounts for, base
\* being the magnitude of the velocity.
Directed(self, axis, base) ==
    Scaled(cartesian(self.settings.direction)[axis], base)

\* C14 as stated: each velocity component is unit(direction)[axis] * base +
\* variance with base = speed * 0.1, plus size * parallax / 50 whenever
\* parallax is set, and variance = r * speed / 100 for some r in [-v, v]
\* when the variance v of the axis is above 0, and 0 otherwise.
VelocityScalesWithSpeed ==
    LET settings == this.settings
        base == (settings.speed * PosScale) \div 10
                  + IF settings.parallax # 0
                    THEN (this.size * settings.parallax * PosScale) \div 50
                    ELSE 0
        varianceX == this.dx - Directed(this, 1, base)
        varianceY == this.dy - Directed(this, 2, base)
    IN  /\ Abs(varianceX) <= (settings.xVariance * settings.speed * PosScale) \div 100
        /\ Abs(varianceY) <= (settings.yVariance * settings.speed * PosScale) \div 100

\* C14 amended: each velocity component is unit(direction)[axis] * base +
\* variance with base = speed * 0.1, plus size * parallax / 50 when parallax
\* is set and speed is not 0, and variance = r * s / 100 for some r in
\* [-v, v] when the variance v of the axis is above 0, and 0 otherwise, s
\* being the speed, or 10 when the speed is 0.
VelocityScalesWithSpeedOrTen ==
    LET settings == this.settings
        s == IF settings.speed # 0 THEN settings.speed ELSE 10
        base == (settings.speed * PosScale) \div 10
                  + IF settings.parallax # 0 /\ settings.speed # 0
                    THEN (this.size * settings.parallax * PosScale) \div 50
                    ELSE 0
        varianceX == this.dx - Directed(this, 1, base)
        varianceY == this.dy - Directed(this, 2, base)
    IN  /\ Abs(varianceX) <= (settings.xVariance * s * PosScale) \div 100
        /\ Abs(varianceY) <= (settings.yVariance * s * PosScale) \div 100

\* A particle with parallax and variance but no speed has been reset and has
\* been given a velocity: variance alone.
ResetWithVarianceOnly ==
    /\ this.op = "reset"
    /\ this.settings.speed = 0
    /\ this.settings.parallax # 0
    /\ this.dx # 0

(***************************************************************************)
(* Construction with and without a parent.  Without one the constructor    *)
(* warns on the console and returns the instance as it is: no field has    *)
(* been assigned.  update() on that instance makes frame NaN and then      *)
(* throws a TypeError at this.canvas.height; render() throws a TypeError   *)
(* at images[undefined][undefined].  Either can be called again after a    *)
(* call that threw; op records that a call has thrown.                     *)
(***************************************************************************)
Unconstructed ==
    [ canvas |-> "undefined", images |-> "undefined", settings |-> "undefined",
      frame |-> "undefined", frameoffset |-> "undefined", size |-> "undefined",
      da |-> "undefined", dx |-> "undefined", dy |-> "undefined",
      dd |-> "undefined", dr |-> "undefined",
      alpha |-> "undefined", alphaSide |-> "undefined",
      pxSide |-> "undefined", pySide |-> "undefined",
      pxExact |-> "undefined", pyExact |-> "undefined",
      pxRest |-> "undefined", pyRest |-> "undefined",
      pxParts |-> "undefined", pyParts |-> "undefined",
      shape |-> "undefined", fillColor |-> "undefined",
      strokeColor |-> "undefined", px |-> "undefined", py |-> "undefined",
      rotation |-> "undefined", resettingTwinkle |-> "undefined",
      op |-> "warned", sampled |-> {} ]

\* new Sparticle(parent), parent being one of parents or undefined.
ConstructAny(parents) ==
    \/ Construct(parents)
    \/ /\ this = Unconstructed
       /\ ctx = NewContext
       /\ ticks = 0

Initialized(self) == self.op \notin {"warned", "TypeError"}

\* Parents whose color or shape is a string, not an array, and parents whose
\* shape is ["image"], with no images, with one, with images undefined and
\* with images a string, empty or not.
OddParents ==
    { [ settings |-> [BaseSettings EXCEPT !.color = o[1], !.shape = o[2]],
        canvas |-> BigCanvas, images |-> o[3] ]
      : o \in { <<String(<<"r", "e", "d">>), BaseSettings.shape, NoImages>>,
                <<BaseSettings.color, String(<<"s", "t", "a", "r">>), NoImages>>,
                <<BaseSettings.color, Array(<<"image">>), NoImages>>,
                <<BaseSettings.color, Array(<<"image">>), Array(<<"leaf">>)>>,
                <<BaseSettings.color, Array(<<"image">>), Undefined>>,
                <<BaseSettings.color, Array(<<"image">>),
                  String(<<"l", "e", "a", "f">>)>>,
                <<BaseSettings.color, Array(<<"image">>), String(<< >>)>> } }

InitConstruct == ConstructAny(PlacedParents \cup OddParents)

UpdateConstructed == Initialized(this) /\ Update

RenderConstructed == Initialized(this) /\ Render

UpdateUnconstructed ==
    /\ ~Initialized(this)
    /\ this' = [this EXCEPT !.frame = "NaN", !.op = "TypeError"]
    /\ UNCHANGED <<ctx, ticks>>

RenderUnconstructed ==
    /\ ~Initialized(this)
    /\ this' = [this EXCEPT !.op = "TypeError"]
    /\ UNCHANGED <<ctx, ticks>>

NextConstruct ==
    \/ UpdateConstructed
    \/ RenderConstructed
    \/ UpdateUnconstructed
    \/ RenderUnconstructed

SpecConstruct == InitConstruct /\ [][NextConstruct]_vars

\* C13: the constructor never returns an instance it has not initialized:
\* without a valid parent it ends in an error, so no state holds an instance
\* whose fields are unassigned and on which update() or render() can still
\* be called.
ConstructionFailsFast == this.op # "warned"

(***************************************************************************)
(* The alpha animation in the long run: update() is called once per frame  *)
(* for as long as the animation runs, CycleTicks times here.               *)
(***************************************************************************)
CycleTicks == 16

UpdateCycle == UpdateUpTo(CycleTicks)

NextCycle == UpdateCycle

InitFade == Construct(FadeParents)

SpecFade == InitFade /\ [][NextCycle]_vars /\ WF_vars(UpdateCycle)

InitTwinkle == Construct(TwinkleParents)

SpecTwinkle == InitTwinkle /\ [][NextCycle]_vars /\ WF_vars(UpdateCycle)

Fading(self) ==
    /\ ~self.settings.twinkle
    /\ self.settings.alphaSpeed > 0
    /\ self.settings.minAlpha < self.settings.maxAlpha

\* The alpha and da the constructor can give a particle.
AlphaStarts ==
    { <<s.alpha, s.da>> : s \in UNION { Sparticle(parent) : parent \in FadeParents } }

\* The most update() calls a full cycle of the alpha animation takes: twice
\* across [minAlpha, maxAlpha] at the smallest step, and the turns.
CycleLength(self) ==
    2 * ((self.settings.maxAlpha - self.settings.minAlpha)
            \div self.settings.alphaSpeed + 2)

\* C12: when fading, an update() that does not reset reverses da exactly
\* when the stepped alpha is above maxAlpha with da > 0 or below minAlpha
\* with da < 0, and then leaves alpha at that bound; any other update()
\* that does not reset keeps da and leaves the stepped alpha.  (A stepped
\* alpha within rounding of the bound is above or below it as the sum of the
\* doubles is rounded: it is kept only when it has not passed the bound.)  A
\* particle that is never reset comes, after two reversals of da, back to
\* within one step of the alpha it started with.
FadeIsPeriodic ==
    /\ [][ (Ticked /\ Fading(this) /\ this'.op # "reset") =>
             LET stepped == this.alpha + this.da * this.settings.alphaSpeed
                 over == this.da > 0 /\ stepped > this.settings.maxAlpha
                 under == this.da < 0 /\ stepped < this.settings.minAlpha
                 overOrTie == this.da > 0 /\ stepped >= this.settings.maxAlpha
                 underOrTie == this.da < 0 /\ stepped <= this.settings.minAlpha
             IN  /\ (over \/ under) => this'.da = -this.da
                 /\ this'.da = -this.da =>
                       \/ overOrTie /\ AtBound(this', this.settings.maxAlpha)
                       \/ underOrTie /\ AtBound(this', this.settings.minAlpha)
                 /\ this'.da # -this.da =>
                       /\ this'.da = this.da
                       /\ this'.alpha = stepped
                       /\ ~( /\ this.da > 0
                             /\ Above(stepped, this'.alphaSide,
                                      this.settings.maxAlpha) )
                       /\ ~( /\ this.da < 0
                             /\ Below(stepped, this'.alphaSide,
                                      this.settings.minAlpha) )
         ]_vars
    /\ \A start \in AlphaStarts :
          ( /\ Fading(this)
            /\ this.settings.speed = 0
            /\ this.alpha = start[1]
            /\ this.da = start[2] )
          => <>( /\ this.da = -start[2]
                 /\ <>( /\ this.da = start[2]
                        /\ Abs(this.alpha - start[1])
                             <= Abs(start[2]) * this.settings.alphaSpeed ) )

\* A standing particle fading at the smallest step has been updated for
\* longer than a full cycle takes and is at maxAlpha.
FadedFullCycle ==
    /\ Fading(this)
    /\ this.settings.speed = 0
    /\ Abs(this.da) = 1
    /\ ticks > CycleLength(this)
    /\ this.alpha = this.settings.maxAlpha

\* C16: when twinkling with minAlpha < maxAlpha, resettingTwinkle becomes
\* set only by an update() that finds alpha below minAlpha, and unset only by
\* one that finds alpha above maxAlpha, and each of the two does so; while
\* set, alpha within the bounds goes up by 0.02 * alphaSpeed whatever da is,
\* and while unset it goes down by |da| * alphaSpeed / 2000.  With update()
\* called again and again, a particle with the flag unset gets it set and a
\* particle with the flag set gets it unset, reset or not, within the
\* update() calls of one cycle.
TwinkleAlternates ==
    /\ [][ (Ticked /\ Twinkling(this)) =>
             LET under == Below(this.alpha, this.alphaSide, this.settings.minAlpha)
                 over == Above(this.alpha, this.alphaSide, this.settings.maxAlpha)
             IN  /\ under => this'.resettingTwinkle
                 /\ (over /\ ~under) => ~this'.resettingTwinkle
                 /\ ~(over \/ under) =>
                       /\ this'.resettingTwinkle = this.resettingTwinkle
                       /\ this'.alpha =
                             IF this.resettingTwinkle
                             THEN this.alpha
                                    + (2 * this.settings.alphaSpeed * AlphaScale) \div 100
                             ELSE this.alpha
                                    - Abs(this'.da) * this.settings.alphaSpeed
         ]_vars
    /\ ( /\ Twinkling(this)
         /\ ~this.resettingTwinkle
         /\ ticks + CycleLength(this) <= CycleTicks ) ~> this.resettingTwinkle
    /\ ( /\ Twinkling(this)
         /\ this.resettingTwinkle
         /\ ticks + CycleLength(this) <= CycleTicks ) ~> ~this.resettingTwinkle

\* A twinkling particle is back at maxAlpha with the flag unset: update()
\* has taken it below minAlpha, up above maxAlpha and back.
TwinkledBackToDecaying ==
    /\ Twinkling(this)
    /\ ticks >= 3
    /\ ~this.resettingTwinkle
    /\ this.alpha = this.settings.maxAlpha
    /\ this.settings.minAlpha < this.settings.maxAlpha

====
